---- MODULE Spec2Model ----
(***************************************************************************)
(* postgresql_comment resource of terraform-provider-postgresql            *)
(* (postgresql/resource_postgresql_comment.go).                            *)
(*                                                                         *)
(* Strings are sequences of one-character strings, so that quoting and its *)
(* parsing by the server are computed character by character.  The catalog *)
(* (pg_shdescription / pg_description) maps an object to the result set of *)
(* the lookup query: <<>> when there is no row, <<description>> otherwise. *)
(***************************************************************************)
EXTENDS Naturals, Sequences, FiniteSets

\* Longest declared comment, in characters.
MaxCommentLen == 1

SQ == "'"
DQ == "\""
BS == "\\"
NUL == "0"
EPrefix == " E"

\* Characters a declared comment is made of: the two that quoting rewrites.
Chars == {SQ, BS}

Comments == UNION {[1..n -> Chars] : n \in 0..MaxCommentLen}

\* The object commented on: object_name is ForceNew, one name per resource.
ObjectNames == {<<"t", DQ>>}

\* Databases of the server.
ServerDatabases == {<<"p">>, <<"m">>}

\* db.client.databaseName: the database the provider is configured with.
databaseName == <<"p">>

\* Values of the database attribute, the explicitly empty one included.
DatabaseAttrs == ServerDatabases \cup {<<>>}

commentAllowedObjectTypes == {"database", "table", "role"}

\* Values of object_type a ResourceData can carry ("schema": not allowed).
ObjectTypes == commentAllowedObjectTypes \cup {"schema"}

\* Result sets of the lookup query.
NoRow == <<>>
Rows == {NoRow} \cup {<<c>> : c \in Comments}

\* Catalog keys: shared catalogs for databases and roles, one pg_description
\* per database for tables.
CatalogKeys ==
    {<<"database", <<>>, n>> : n \in ObjectNames}
    \cup {<<"role", <<>>, n>> : n \in ObjectNames}
    \cup {<<"table", db, n>> : db \in ServerDatabases, n \in ObjectNames}

SetFaults == {"none", "begin", "exec", "commit"}
GetFaults == {"none", "begin", "query"}

VARIABLES
    store,             \* the server's catalogs: CatalogKeys -> Rows
    d,                 \* the ResourceData as the last handler left it
    featureSupported,  \* db.featureSupported(featureComment)
    call,              \* the last handler call: its input, result and transactions
    lastWrite          \* <<v>>: v was the last comment committed, no change since

vars == <<store, d, featureSupported, call, lastWrite>>

----------------------------------------------------------------------------
\* Quoting (lib/pq) and its reading by the server.

RECURSIVE ReplaceAll(_, _, _)
ReplaceAll(s, c, r) ==
    IF s = <<>> THEN <<>>
    ELSE (IF Head(s) = c THEN r ELSE <<Head(s)>>) \o ReplaceAll(Tail(s), c, r)

Contains(s, c) == \E i \in 1..Len(s) : s[i] = c

RECURSIVE TruncateAt(_, _)
TruncateAt(s, c) ==
    IF s = <<>> \/ Head(s) = c THEN <<>>
    ELSE <<Head(s)>> \o TruncateAt(Tail(s), c)

QuoteIdentifier(name) ==
    <<DQ>> \o ReplaceAll(TruncateAt(name, NUL), DQ, <<DQ, DQ>>) \o <<DQ>>

QuoteLiteral(literal) ==
    LET q == ReplaceAll(literal, SQ, <<SQ, SQ>>)
    IN  IF Contains(q, BS)
        THEN <<EPrefix, SQ>> \o ReplaceAll(q, BS, <<BS, BS>>) \o <<SQ>>
        ELSE <<SQ>> \o q \o <<SQ>>

\* The index of the quote closing a quoted token that opens at s[1]; 0 when
\* the token is not closed.  A doubled quote stands for one quote; with esc,
\* a backslash takes the next character.
RECURSIVE ClosingQuote(_, _, _, _)
ClosingQuote(s, i, q, esc) ==
    IF i > Len(s) THEN 0
    ELSE IF esc /\ s[i] = BS THEN ClosingQuote(s, i + 2, q, esc)
    ELSE IF s[i] = q /\ i < Len(s) /\ s[i + 1] = q THEN ClosingQuote(s, i + 2, q, esc)
    ELSE IF s[i] = q THEN i
    ELSE ClosingQuote(s, i + 1, q, esc)

RECURSIVE Unquote(_, _, _)
Unquote(s, q, esc) ==
    IF s = <<>> THEN <<>>
    ELSE IF esc /\ Head(s) = BS /\ Len(s) >= 2
        THEN <<s[2]>> \o Unquote(SubSeq(s, 3, Len(s)), q, esc)
    ELSE IF Head(s) = q /\ Len(s) >= 2 /\ s[2] = q
        THEN <<q>> \o Unquote(SubSeq(s, 3, Len(s)), q, esc)
    ELSE <<Head(s)>> \o Unquote(Tail(s), q, esc)

\* The server's reading of COMMENT ON <KEYWORD> <identifier> IS <literal>.
ParseComment(sql) ==
    LET bad == [ok |-> FALSE, keyword |-> "", name |-> <<>>, value |-> <<>>]
    IN  IF Len(sql) < 4 \/ sql[1] # "COMMENT ON " \/ sql[3] # " " \/ sql[4] # DQ
        THEN bad
        ELSE
          LET rest == SubSeq(sql, 4, Len(sql))
              e    == ClosingQuote(rest, 2, DQ, FALSE)
          IN  IF e = 0 \/ Len(rest) < e + 2 \/ rest[e + 1] # " IS "
              THEN bad
              ELSE
                LET lit  == SubSeq(rest, e + 2, Len(rest))
                    esc  == lit[1] = EPrefix
                    body == IF esc THEN Tail(lit) ELSE lit
                    c    == IF body # <<>> /\ body[1] = SQ
                            THEN ClosingQuote(body, 2, SQ, esc) ELSE 0
                IN  IF c = 0 \/ c # Len(body)
                    THEN bad
                    ELSE [ok      |-> TRUE,
                          keyword |-> sql[2],
                          name    |-> Unquote(SubSeq(rest, 2, e - 1), DQ, FALSE),
                          value   |-> Unquote(SubSeq(body, 2, c - 1), SQ, esc)]

----------------------------------------------------------------------------
\* The server and the connection provider.

nil == "nil"

CatalogKey(kind, conn, name) ==
    IF kind = "table" THEN <<"table", conn, name>> ELSE <<kind, <<>>, name>>

KeywordKind(keyword) ==
    CASE keyword = "DATABASE" -> "database"
      [] keyword = "ROLE"     -> "role"
      [] keyword = "TABLE"    -> "table"
      [] OTHER                -> "none"

\* The catalogs after the server runs the statement on a connection to conn:
\* an empty comment removes the row.
ExecComment(st, conn, sql) ==
    LET p   == ParseComment(sql)
        key == CatalogKey(KeywordKind(p.keyword), conn, p.name)
    IN  IF p.ok /\ key \in DOMAIN st
        THEN [ok |-> TRUE,
              store |-> [st EXCEPT ![key] = IF p.value = <<>> THEN NoRow ELSE <<p.value>>]]
        ELSE [ok |-> FALSE, store |-> st]

\* The rows of SELECT description ... for the object, on a connection to conn:
\* the catalog holds at most one description per object.
QueryRow(st, commentType, conn, commentName) ==
    LET key == CatalogKey(commentType, conn, commentName)
    IN  IF key \in DOMAIN st THEN st[key] ELSE NoRow

\* startTransaction(client, database): a transaction on the client's own
\* connection when database is empty, on a connection to database otherwise.
startTransaction(database, fault) ==
    IF fault = "begin"
    THEN [err |-> "TransactionError", txn |-> <<>>]
    ELSE [err |-> nil,
          txn |-> [database |-> database,
                   conn     |-> IF database = <<>> THEN databaseName ELSE database,
                   stmts    |-> <<>>,
                   state    |-> "open"]]

\* deferredRollback(txn): rolls back; a transaction already ended is left alone.
deferredRollback(txn) ==
    IF txn.state = "open" THEN [txn EXCEPT !.state = "rolledback"] ELSE txn

----------------------------------------------------------------------------
\* setComment and getComment.  Each result carries the error returned, the
\* catalogs afterwards and the transactions opened, as they are on return.

CommentStatement(commentTypeObject, commentName, commentValue) ==
    <<"COMMENT ON ", commentTypeObject, " ">> \o QuoteIdentifier(commentName)
        \o <<" IS ">> \o QuoteLiteral(commentValue)

setCommentTarget_DefaultDatabase(commentDatabase, commentType) ==
    [commentTypeObject |->
        CASE commentType = "database" -> "DATABASE"
          [] commentType = "role"     -> "ROLE"
          [] commentType = "table"    -> "TABLE"
          [] OTHER                    -> "",
     database |-> <<>>]

setCommentTarget_KeepDatabase(commentDatabase, commentType) ==
    [commentTypeObject |->
        CASE commentType = "database" -> "DATABASE"
          [] commentType = "role"     -> "ROLE"
          [] commentType = "table"    -> "TABLE"
          [] OTHER                    -> "",
     database |-> commentDatabase]

\* The switch of setComment: the SQL keyword ("" on the default branch) and
\* the database of the transaction.
setCommentTarget(commentDatabase, commentType) ==
    [commentTypeObject |->
        CASE commentType = "database" -> "DATABASE"
          [] commentType = "role"     -> "ROLE"
          [] commentType = "table"    -> "TABLE"
          [] OTHER                    -> "",
     database |->
        IF commentType \in {"database", "role"} THEN <<>> ELSE commentDatabase]

setComment(st, commentDatabase, commentType, commentName, commentValue, fault) ==
    LET target == setCommentTarget(commentDatabase, commentType)
        begin  == startTransaction(target.database, fault)
        txn    == begin.txn
        sql    == CommentStatement(target.commentTypeObject, commentName, commentValue)
        exec   == ExecComment(st, txn.conn, sql)
        ran    == [txn EXCEPT !.stmts = Append(@, "COMMENT")]
    IN  IF target.commentTypeObject = ""
        THEN [err |-> "UnsupportedObjectType", store |-> st, txns |-> <<>>]
        ELSE IF begin.err # nil
        THEN [err |-> begin.err, store |-> st, txns |-> <<>>]
        ELSE IF fault = "exec" \/ ~exec.ok
        THEN [err |-> "StatementExecutionError", store |-> st,
              txns |-> <<deferredRollback(ran)>>]
        ELSE IF fault = "commit"
        THEN [err |-> "CommitError", store |-> st,
              txns |-> <<deferredRollback([ran EXCEPT !.state = "commitfailed"])>>]
        ELSE [err |-> nil, store |-> exec.store,
              txns |-> <<deferredRollback([ran EXCEPT !.state = "committed"])>>]

getComment_NoDeferredRollback(st, commentDatabase, commentType, commentName, fault) ==
    LET begin == startTransaction(commentDatabase, fault)
        txn   == begin.txn
        ran   == [txn EXCEPT !.stmts = Append(@, "SELECT")]
        rows  == QueryRow(st, commentType, txn.conn, commentName)
    IN  IF begin.err # nil
        THEN [err |-> begin.err, description |-> <<>>, queried |-> FALSE,
              rows |-> NoRow, txns |-> <<>>]
        ELSE IF commentType \notin {"database", "role", "table"}
        THEN [err |-> "UnsupportedObjectType", description |-> <<>>, queried |-> FALSE,
              rows |-> NoRow, txns |-> <<txn>>]
        ELSE IF fault = "query"
        THEN [err |-> "QueryError", description |-> <<>>, queried |-> TRUE,
              rows |-> NoRow, txns |-> <<ran>>]
        ELSE IF rows = NoRow
        THEN [err |-> nil, description |-> <<>>, queried |-> TRUE,
              rows |-> NoRow, txns |-> <<ran>>]
        ELSE [err |-> nil, description |-> rows[1], queried |-> TRUE,
              rows |-> rows, txns |-> <<ran>>]

getComment(st, commentDatabase, commentType, commentName, fault) ==
    LET begin == startTransaction(commentDatabase, fault)
        txn   == begin.txn
        ran   == [txn EXCEPT !.stmts = Append(@, "SELECT")]
        rows  == QueryRow(st, commentType, txn.conn, commentName)
    IN  IF begin.err # nil
        THEN [err |-> begin.err, description |-> <<>>, queried |-> FALSE,
              rows |-> NoRow, txns |-> <<>>]
        ELSE IF commentType \notin {"database", "role", "table"}
        THEN [err |-> "UnsupportedObjectType", description |-> <<>>, queried |-> FALSE,
              rows |-> NoRow, txns |-> <<deferredRollback(txn)>>]
        ELSE IF fault = "query"
        THEN [err |-> "QueryError", description |-> <<>>, queried |-> TRUE,
              rows |-> NoRow, txns |-> <<deferredRollback(ran)>>]
        ELSE IF rows = NoRow
        THEN [err |-> nil, description |-> <<>>, queried |-> TRUE,
              rows |-> NoRow, txns |-> <<deferredRollback(ran)>>]
        ELSE [err |-> nil, description |-> rows[1], queried |-> TRUE,
              rows |-> rows, txns |-> <<deferredRollback(ran)>>]

\* The attribute getDatabaseForComment reads (declared with the extension
\* resource): the database attribute.
extDatabaseAttr == "database"

getDatabaseForComment_IgnoresAttribute(dd, dbName) ==
    dbName

\* GetOk: ok only for a value that is set and not the zero value "".
getDatabaseForComment(dd, dbName) ==
    IF dd[extDatabaseAttr] # <<>> THEN dd[extDatabaseAttr] ELSE dbName

generateCommentID(dd, dbName) ==
    dbName \o <<".">> \o dd.object_name

----------------------------------------------------------------------------
\* The handlers.  dd is the ResourceData a handler is called with, st the
\* catalogs; wf and rf are what goes wrong in setComment and in getComment.

Result(err, dd, st, txns, ret, g) ==
    [err |-> err, d |-> dd, store |-> st, txns |-> txns, ret |-> ret,
     queried |-> g.queried]

NoQuery == [queried |-> FALSE]

resourcePostgreSQLCommentReadImpl(dd, st, rf) ==
    LET database == getDatabaseForComment(dd, databaseName)
        g == getComment(st, dd.database, dd.object_type, dd.object_name, rf)
    IN  IF g.err # nil
        THEN Result(g.err, dd, st, g.txns, FALSE, g)
        ELSE Result(nil,
                    [dd EXCEPT !.comment = g.description,
                               !.id = generateCommentID(dd, database)],
                    st, g.txns, FALSE, g)

resourcePostgreSQLCommentCreate(dd, st, wf, rf) ==
    LET s == setComment(st, dd.database, dd.object_type, dd.object_name, dd.comment, wf)
        r == resourcePostgreSQLCommentReadImpl(dd, s.store, rf)
    IN  IF ~featureSupported
        THEN Result("FeatureUnsupported", dd, st, <<>>, FALSE, NoQuery)
        ELSE IF s.err # nil
        THEN Result(s.err, dd, s.store, s.txns, FALSE, NoQuery)
        ELSE [r EXCEPT !.txns = s.txns \o @]

resourcePostgreSQLCommentExists_NoComparison(dd, st, rf) ==
    LET g == getComment(st, dd.database, dd.object_type, dd.object_name, rf)
    IN  IF g.err # nil
        THEN Result(g.err, dd, st, g.txns, FALSE, g)
        ELSE Result(nil, dd, st, g.txns, TRUE, g)

resourcePostgreSQLCommentExists_Reconciles(dd, st, rf) ==
    LET g == getComment(st, dd.database, dd.object_type, dd.object_name, rf)
        s == setComment(st, dd.database, dd.object_type, dd.object_name, dd.comment, "none")
    IN  IF g.err # nil
        THEN Result(g.err, dd, st, g.txns, FALSE, g)
        ELSE IF g.description # dd.comment
        THEN Result(nil, dd, s.store, g.txns \o s.txns, FALSE, g)
        ELSE Result(nil, dd, st, g.txns, TRUE, g)

resourcePostgreSQLCommentExists(dd, st, rf) ==
    LET g == getComment(st, dd.database, dd.object_type, dd.object_name, rf)
    IN  IF g.err # nil
        THEN Result(g.err, dd, st, g.txns, FALSE, g)
        ELSE IF g.description # dd.comment
        THEN Result(nil, dd, st, g.txns, FALSE, g)
        ELSE Result(nil, dd, st, g.txns, TRUE, g)

resourcePostgreSQLCommentRead_NoFeatureCheck(dd, st, rf) ==
    resourcePostgreSQLCommentReadImpl(dd, st, rf)

resourcePostgreSQLCommentRead(dd, st, rf) ==
    IF ~featureSupported
    THEN Result("FeatureUnsupported", dd, st, <<>>, FALSE, NoQuery)
    ELSE resourcePostgreSQLCommentReadImpl(dd, st, rf)

\* The function returns nil on its first line; the statements after it (the
\* feature check, setComment with "", SetId("")) never run.
resourcePostgreSQLCommentDelete(dd, st) ==
    Result(nil, dd, st, <<>>, FALSE, NoQuery)

resourcePostgreSQLCommentUpdate_IgnoresSetError(dd, st, wf, rf) ==
    LET s == setComment(st, dd.database, dd.object_type, dd.object_name, dd.comment, wf)
        r == resourcePostgreSQLCommentReadImpl(dd, s.store, rf)
    IN  IF ~featureSupported
        THEN Result("FeatureUnsupported", dd, st, <<>>, FALSE, NoQuery)
        ELSE [r EXCEPT !.txns = s.txns \o @]

resourcePostgreSQLCommentUpdate(dd, st, wf, rf) ==
    LET s == setComment(st, dd.database, dd.object_type, dd.object_name, dd.comment, wf)
        r == resourcePostgreSQLCommentReadImpl(dd, s.store, rf)
    IN  IF ~featureSupported
        THEN Result("FeatureUnsupported", dd, st, <<>>, FALSE, NoQuery)
        ELSE IF s.err # nil
        THEN Result(s.err, dd, s.store, s.txns, FALSE, NoQuery)
        ELSE [r EXCEPT !.txns = s.txns \o @]

----------------------------------------------------------------------------
\* The resource's callbacks, as the host calls them.

Committed(txns) ==
    \E i \in 1..Len(txns) :
        txns[i].state = "committed" /\ Contains(txns[i].stmts, "COMMENT")

\* The state after a call of op with ResourceData dIn and result out.
Return(op, dIn, wf, out) ==
    /\ d' = out.d
    /\ store' = out.store
    /\ call' = [op |-> op, dIn |-> dIn, wf |-> wf, err |-> out.err, ret |-> out.ret,
                queried |-> out.queried, txns |-> out.txns]
    /\ lastWrite' = IF Committed(out.txns) THEN <<dIn.comment>> ELSE lastWrite
    /\ UNCHANGED featureSupported

\* At most one thing goes wrong in a call.
OneFault(wf, rf) == wf = "none" \/ rf = "none"

\* Create: a new ResourceData holding the declared attributes, with no id.
Create ==
    \E v \in Comments, wf \in SetFaults, rf \in GetFaults :
        LET dIn == [d EXCEPT !.comment = v, !.id = <<>>]
        IN  /\ OneFault(wf, rf)
            /\ Return("create", dIn, wf, resourcePostgreSQLCommentCreate(dIn, store, wf, rf))

Read ==
    \E rf \in GetFaults :
        Return("read", d, "none", resourcePostgreSQLCommentRead(d, store, rf))

\* Update: the ResourceData holds the newly declared comment.
Update ==
    \E v \in Comments, wf \in SetFaults, rf \in GetFaults :
        LET dIn == [d EXCEPT !.comment = v]
        IN  /\ OneFault(wf, rf)
            /\ Return("update", dIn, wf, resourcePostgreSQLCommentUpdate(dIn, store, wf, rf))

Delete ==
    Return("delete", d, "none", resourcePostgreSQLCommentDelete(d, store))

Exists ==
    \E rf \in GetFaults :
        Return("exists", d, "none", resourcePostgreSQLCommentExists(d, store, rf))

\* The catalog entry of the object the ResourceData names.
ObjectKey(dd) ==
    CatalogKey(dd.object_type,
               IF dd.database = <<>> THEN databaseName ELSE dd.database,
               dd.object_name)

\* The object's comment set or removed by someone else.
OutOfBand ==
    \E rows \in Rows :
        /\ ObjectKey(d) \in CatalogKeys
        /\ store[ObjectKey(d)] # rows
        /\ store' = [store EXCEPT ![ObjectKey(d)] = rows]
        /\ call' = [op |-> "outofband", dIn |-> d, wf |-> "none", err |-> nil, ret |-> FALSE,
                    queried |-> FALSE, txns |-> <<>>]
        /\ lastWrite' = <<>>
        /\ UNCHANGED <<d, featureSupported>>

Init ==
    /\ store = [key \in CatalogKeys |-> NoRow]
    /\ d \in [object_type : ObjectTypes, object_name : ObjectNames,
              database : DatabaseAttrs, comment : {<<>>}, id : {<<>>}]
    /\ featureSupported \in BOOLEAN
    /\ call = [op |-> "init", dIn |-> d, wf |-> "none", err |-> nil, ret |-> FALSE,
               queried |-> FALSE, txns |-> <<>>]
    /\ lastWrite = <<>>

Next ==
    \/ Create
    \/ Read
    \/ Update
    \/ Delete
    \/ Exists
    \/ OutOfBand

Spec == Init /\ [][Next]_vars

----------------------------------------------------------------------------
\* Properties.  call describes the handler call that led to the state: dIn is
\* the ResourceData it was called with, d the ResourceData on return.

Supported(dd) == dd.object_type \in commentAllowedObjectTypes

\* The rows the catalog holds for the object of dd.
Stored(dd) == store[ObjectKey(dd)]

Description(rows) == IF rows = NoRow THEN <<>> ELSE rows[1]

Ran(txns, stmt) == \E i \in 1..Len(txns) : Contains(txns[i].stmts, stmt)

\* C1: a successful delete of a present resource of a supported type with a
\* comment, on a server that supports comments, has run the clearing
\* statement in a committed transaction: the object's stored comment is
\* empty and the resource's id is cleared.
C1_DeleteClearsComment ==
    (/\ call.op = "delete"
     /\ featureSupported
     /\ Supported(call.dIn)
     /\ call.dIn.id # <<>>
     /\ call.dIn.comment # <<>>
     /\ call.err = nil)
    => (/\ Committed(call.txns)
        /\ Stored(call.dIn) = NoRow
        /\ d.id = <<>>)

C4_NoOpenTransaction ==
    \A i \in 1..Len(call.txns) :
        call.txns[i].state \in {"committed", "commitfailed", "rolledback"}

C4_Witness ==
    /\ call.op = "exists"
    /\ call.err = "UnsupportedObjectType"
    /\ Len(call.txns) = 1
    /\ call.txns[1].state = "rolledback"

\* C5: a create or update whose setComment cannot open the transaction, fails
\* to execute the statement or fails to commit returns an error, leaves the
\* stored comments as they were, runs no read and leaves the ResourceData as
\* it was passed; a create or update changes the stored comments only when
\* the statement ran and its transaction was committed.
C5_FailedWriteChangesNothing ==
    [][(call'.op \in {"create", "update"})
       => (/\ call'.wf # "none"
              => (/\ call'.err # nil
                  /\ store' = store
                  /\ ~call'.queried
                  /\ ~Ran(call'.txns, "SELECT")
                  /\ d' = call'.dIn)
           /\ store' # store
              => (call'.wf = "none" /\ Committed(call'.txns)))]_vars

C5_Witness ==
    /\ call.op = "update"
    /\ call.err = "CommitError"
    /\ call.dIn.id # <<>>
    /\ Stored(call.dIn) # NoRow
    /\ Stored(call.dIn) # <<call.dIn.comment>>

\* C6: read and exists leave every stored comment as it was and execute no
\* COMMENT statement, whether they succeed or fail; among the handlers only
\* create and update change a stored comment.
C6_ReadExistsChangeNothing ==
    [][/\ call'.op \in {"read", "exists"}
          => (store' = store /\ ~Ran(call'.txns, "COMMENT"))
       /\ store' # store
          => call'.op \in {"create", "update", "outofband"}]_vars

C6_Witness ==
    /\ call.op = "exists"
    /\ call.err = nil
    /\ Stored(call.dIn) # NoRow
    /\ Stored(call.dIn) # <<call.dIn.comment>>
    /\ ~call.ret

\* C7: for a table every transaction of create, update, read and exists is
\* opened against the declared database attribute; for a database or a role
\* the transaction of the COMMENT statement is opened with an empty database
\* name, whatever the attribute.
C7_TransactionDatabase ==
    \A i \in 1..Len(call.txns) :
        /\ (call.op \in {"create", "update", "read", "exists"}
            /\ call.dIn.object_type = "table")
           => call.txns[i].database = call.dIn.database
        /\ (call.op \in {"create", "update"}
            /\ call.dIn.object_type \in {"database", "role"}
            /\ Contains(call.txns[i].stmts, "COMMENT"))
           => call.txns[i].database = <<>>

C7_Witness ==
    /\ call.op = "create"
    /\ call.err = nil
    /\ call.dIn.object_type = "role"
    /\ call.dIn.database = <<"m">>
    /\ Len(call.txns) = 2
    /\ call.txns[1].database = <<>>
    /\ call.txns[1].state = "committed"

\* C8: on a server that supports comments, create, update, read and exists
\* of an object type that is not allowed fail with UnsupportedObjectType
\* whatever else goes wrong, execute no statement and no query, and leave the
\* ResourceData as it was passed.
C8_UnsupportedTypeFails ==
    (/\ call.op \in {"create", "update", "read", "exists"}
     /\ featureSupported
     /\ ~Supported(call.dIn))
    => (/\ call.err = "UnsupportedObjectType"
        /\ ~call.queried
        /\ ~Ran(call.txns, "COMMENT")
        /\ ~Ran(call.txns, "SELECT")
        /\ d = call.dIn)

\* C9: on a server that does not support comments, create, read and update
\* fail with FeatureUnsupported, open no transaction, execute nothing, leave
\* the stored comments as they were and the ResourceData as it was passed.
C9_FeatureUnsupported ==
    [][(~featureSupported /\ call'.op \in {"create", "read", "update"})
       => (/\ call'.err = "FeatureUnsupported"
           /\ call'.txns = <<>>
           /\ ~call'.queried
           /\ store' = store
           /\ d' = call'.dIn)]_vars

C9_Witness ==
    /\ ~featureSupported
    /\ call.op = "read"
    /\ call.err = "FeatureUnsupported"
    /\ Supported(call.dIn)

\* C10 as stated: after a successful create, update or read the id is the
\* declared database attribute, a dot and the object name, also when the
\* attribute is empty.
C10_IdIsDeclaredDatabase ==
    (call.op \in {"create", "update", "read"} /\ call.err = nil)
    => d.id = call.dIn.database \o <<".">> \o call.dIn.object_name

\* C10 amended: after a successful create, update or read the id is the
\* declared database attribute, a dot and the object name when the attribute
\* is not empty, and the provider's database name, a dot and the object name
\* when it is empty.
C10_IdFallsBackToProviderDatabase ==
    (call.op \in {"create", "update", "read"} /\ call.err = nil)
    => /\ call.dIn.database # <<>>
          => d.id = call.dIn.database \o <<".">> \o call.dIn.object_name
       /\ call.dIn.database = <<>>
          => d.id = databaseName \o <<".">> \o call.dIn.object_name

C10_Witness ==
    /\ call.op = "create"
    /\ call.err = nil
    /\ call.dIn.database = <<>>
    /\ d.id = <<"p", ".", "t", DQ>>

====
